---- MODULE Spec2Model ----
(***************************************************************************)
(* Tower of Hanoi environment (padm_env.py) and tabular Q-learning trainer *)
(* (q_learning.py), driven by main.py.                                     *)
(*                                                                         *)
(* A puzzle state is a function from disk index 0 .. numDisks-1 to the peg *)
(* (0, 1 or 2) holding that disk, as the Python tuple agentState is.       *)
(* Rewards and Q-values are kept in millionths: -0.001 is -1000, -0.1 is   *)
(* -100000, +1 is 1000000.  alpha and gamma are kept in hundredths and      *)
(* epsilon, epsilon_min and epsilon_decay in thousandths; a product of two  *)
(* of them is rounded down to the unit, where Python rounds to a float.     *)
(* Python's None / False / True of the done flag are the strings "None",   *)
(* "False" and "True".                                                     *)
(***************************************************************************)
EXTENDS Integers, Sequences, FiniteSets, TLC

VARIABLES
    constructed,  \* a HanoiTower object exists
    numDisks,     \* self.numDisks
    agentState,   \* self.agentState
    goalState,    \* self.goalState
    reward,       \* self.reward
    done,         \* self.done
    calls,        \* the most recent calls made on the environment, newest last
    pre,          \* the environment's fields just before the most recent call
    legalMove,    \* what moveAllowed returned in the most recent step
    ret,          \* what the most recent call returned
    pair,         \* two puzzle states handed to state_to_index
    rows,         \* the two indices state_to_index returned, <<>> before the calls
    trainer,      \* the arguments and locals of train_q_learning, and where it is
    sinceReset    \* the step calls since the last reset: how many, how many legal, their rewards

envVars == <<constructed, numDisks, agentState, goalState, reward, done>>
callVars == <<calls, pre, legalMove, ret>>
indexVars == <<pair, rows>>
vars == <<envVars, callVars, indexVars, trainer, sinceReset>>

----------------------------------------------------------------------------
(* Bounds of the model *)

\* largest number of disks an environment is constructed with
MaxDisks == 3
\* how many of the most recent calls are remembered
MaxHist == 3
\* how many step calls after a reset are counted
MaxCount == 8

\* largest no_episodes a training run is started with
MaxEpisodes == 2
\* largest number of environment steps of a training run that is followed
MaxSteps == 4

\* numDisks values passed to create_env: Python accepts any integer
NumDisksInputs == -1 .. MaxDisks

Pegs == {0, 1, 2}

----------------------------------------------------------------------------
(* Program constants *)

\* reward of a legal move, -0.001
RewardLegal == -1000
\* reward of an illegal move, -0.1
RewardIllegal == -100000
\* reward of reaching the goal, +1
RewardGoal == 1000000

\* the six actions with each move followed by its reverse
actionToMoveReversePairs ==
    [k \in 0 .. 5 |->
        CASE k = 0 -> <<0, 1>>
          [] k = 1 -> <<1, 0>>
          [] k = 2 -> <<0, 2>>
          [] k = 3 -> <<2, 0>>
          [] k = 4 -> <<1, 2>>
          [] k = 5 -> <<2, 1>>]

\* the list actionToMove of the trainer: the pair of each action index
actionToMove ==
    [k \in 0 .. 5 |->
        CASE k = 0 -> <<0, 1>>
          [] k = 1 -> <<0, 2>>
          [] k = 2 -> <<1, 0>>
          [] k = 3 -> <<1, 2>>
          [] k = 4 -> <<2, 0>>
          [] k = 5 -> <<2, 1>>]

\* the pairs the environment documents for each action index
actionLookup ==
    [k \in 0 .. 5 |->
        CASE k = 0 -> <<0, 1>>
          [] k = 1 -> <<0, 2>>
          [] k = 2 -> <<1, 0>>
          [] k = 3 -> <<1, 2>>
          [] k = 4 -> <<2, 0>>
          [] k = 5 -> <<2, 1>>]

Actions == {actionLookup[k] : k \in DOMAIN actionLookup}

----------------------------------------------------------------------------
(* Helpers of the environment *)

\* n * (peg, ): the tuple of n copies of peg; empty when n <= 0
Repeat(n, peg) == [d \in 0 .. n - 1 |-> peg]

\* min of a non-empty set of disk indices
Min(S) == CHOOSE x \in S : \A y \in S : x <= y

\* HanoiTower.disksOnPeg: the disks of range(numDisks) assigned to peg
disksOnPeg(st, n, peg) == {disk \in 0 .. n - 1 : st[disk] = peg}

\* moveAllowed refusing a move onto an empty peg
moveAllowedOntoDisksOnly(st, n, action) ==
    LET disks_from == disksOnPeg(st, n, action[1])
        disks_to == disksOnPeg(st, n, action[2])
    IN  IF disks_from # {}
        THEN IF disks_to # {}
             THEN Min(disks_to) > Min(disks_from)
             ELSE FALSE
        ELSE FALSE

\* moveAllowed with the comparison of the two top disks reversed
moveAllowedReversed(st, n, action) ==
    LET disks_from == disksOnPeg(st, n, action[1])
        disks_to == disksOnPeg(st, n, action[2])
    IN  IF disks_from # {}
        THEN IF disks_to # {}
             THEN Min(disks_to) < Min(disks_from)
             ELSE TRUE
        ELSE FALSE

\* HanoiTower.moveAllowed
moveAllowed(st, n, action) ==
    LET disks_from == disksOnPeg(st, n, action[1])
        disks_to == disksOnPeg(st, n, action[2])
    IN  IF disks_from # {}
        THEN IF disks_to # {}
             THEN Min(disks_to) > Min(disks_from)
             ELSE TRUE
        ELSE FALSE

\* max of a non-empty set of disk indices
Max(S) == CHOOSE x \in S : \A y \in S : x >= y

\* the legal branch moving the largest disk of the source peg
movedStateLargest(st, n, action) ==
    LET diskToMove == Max(disksOnPeg(st, n, action[1]))
    IN  [st EXCEPT ![diskToMove] = action[2]]

\* step, legal branch: the state with the smallest disk of the source peg moved
movedState(st, n, action) ==
    LET diskToMove == Min(disksOnPeg(st, n, action[1]))
    IN  [st EXCEPT ![diskToMove] = action[2]]

\* step: self.agentState after the move was applied or skipped
stepState(st, n, action) ==
    IF moveAllowed(st, n, action) THEN movedState(st, n, action) ELSE st

\* the reward accumulated onto the old one (the assignments left commented out)
moveRewardCumulative(old, legal) ==
    IF legal THEN old + RewardLegal ELSE old + RewardIllegal

\* step: self.reward before the goal test; the old reward is overwritten
moveReward(old, legal) == IF legal THEN RewardLegal ELSE RewardIllegal

\* the goal test made in the legal branch only
stepRewardGoalIfLegal(old, legal, atGoal) ==
    IF atGoal /\ legal THEN RewardGoal ELSE moveReward(old, legal)

\* step: self.reward after the goal test
stepReward(old, legal, atGoal) ==
    IF atGoal THEN RewardGoal ELSE moveReward(old, legal)

\* step: self.done after the goal test; only the goal assigns it
stepDone(old, atGoal) == IF atGoal THEN "True" ELSE old

\* step: the info string
stepInfo(legal, atGoal) ==
    IF atGoal THEN "Reached the goal"
    ELSE IF legal THEN "Move was successfull but did not reach goal"
    ELSE "Invalid action"

\* reset: self.agentState
resetState(n) == Repeat(n, 0)

\* reset leaving the terminal flag as it was
resetDoneKept(old) == old

\* reset: self.done
resetDone(old) == "False"

----------------------------------------------------------------------------
(* state_to_index *)

RECURSIVE Pow(_, _)
\* base ** exp, exp >= 0
Pow(base, exp) == IF exp <= 0 THEN 1 ELSE base * Pow(base, exp - 1)

\* the weight with disk 0 as the least significant digit
placeValueLowFirst(num_pegs, i) == Pow(3, i)

\* 3 ** (num_pegs - i - 1), the weight of position i
placeValue(num_pegs, i) == Pow(3, num_pegs - i - 1)

RECURSIVE indexLoop(_, _, _)
\* the for loop of state_to_index from position i on, index accumulated so far
indexLoop(state, i, index) ==
    LET num_pegs == Cardinality(DOMAIN state)
    IN  IF i >= num_pegs THEN index
        ELSE indexLoop(state, i + 1, index + state[i] * placeValue(num_pegs, i))

\* state_to_index(state)
state_to_index(state) == indexLoop(state, 0, 0)

\* all tuples of n pegs
Tuples(n) == [0 .. n - 1 -> Pegs]

----------------------------------------------------------------------------
(* The environment under an arbitrary caller *)

Snapshot ==
    [numDisks |-> numDisks, agentState |-> agentState, goalState |-> goalState,
     reward |-> reward, done |-> done]

NoRet == [state |-> <<>>, reward |-> 0, done |-> "None", info |-> ""]

Record(call) ==
    /\ calls' = IF Len(calls) < MaxHist THEN Append(calls, call)
                ELSE Append(Tail(calls), call)
    /\ pre' = Snapshot

EnvInit ==
    /\ constructed = FALSE
    /\ numDisks = 0
    /\ agentState = <<>>
    /\ goalState = <<>>
    /\ reward = 0
    /\ done = "None"
    /\ calls = <<>>
    /\ pre = [numDisks |-> 0, agentState |-> <<>>, goalState |-> <<>>,
              reward |-> 0, done |-> "None"]
    /\ legalMove = FALSE
    /\ ret = NoRet

\* no state_to_index call is being looked at
IndexIdle == pair = <<>> /\ rows = <<>>

\* train_q_learning has not been called
TrainIdle == trainer = [pc |-> "idle"]

\* no step calls are being counted
SolveIdle == sinceReset = [steps |-> 0, legal |-> 0, reward |-> 0]

Init == EnvInit /\ IndexIdle /\ TrainIdle /\ SolveIdle

\* create_env(n) / HanoiTower.__init__
Construct(n) ==
    /\ ~constructed
    /\ constructed' = TRUE
    /\ numDisks' = n
    /\ agentState' = Repeat(n, 0)
    /\ goalState' = Repeat(n, 2)
    /\ reward' = 0
    /\ done' = "None"
    /\ Record([op |-> "init", action |-> <<>>])
    /\ legalMove' = FALSE
    /\ ret' = NoRet

\* the body of HanoiTower.reset
ResetBody ==
    /\ constructed
    /\ agentState' = resetState(numDisks)
    /\ done' = resetDone(done)
    /\ ret' = [NoRet EXCEPT !.state = agentState']
    /\ legalMove' = FALSE
    /\ UNCHANGED <<constructed, numDisks, goalState, reward>>

\* HanoiTower.reset, the call remembered
Reset ==
    /\ ResetBody
    /\ Record([op |-> "reset", action |-> <<>>])

\* the body of HanoiTower.step
StepBody(action) ==
    /\ constructed
    /\ LET legal == moveAllowed(agentState, numDisks, action)
           next == stepState(agentState, numDisks, action)
           atGoal == next = goalState
       IN  /\ legalMove' = legal
           /\ agentState' = next
           /\ reward' = stepReward(reward, legal, atGoal)
           /\ done' = stepDone(done, atGoal)
           /\ ret' = [state |-> next, reward |-> reward', done |-> done',
                      info |-> stepInfo(legal, atGoal)]
    /\ UNCHANGED <<constructed, numDisks, goalState>>

\* HanoiTower.step, the call remembered
Step(action) ==
    /\ StepBody(action)
    /\ Record([op |-> "step", action |-> action])

Next ==
    \/ (\E n \in NumDisksInputs : Construct(n)) /\ UNCHANGED <<indexVars, trainer, sinceReset>>
    \/ Reset /\ UNCHANGED <<indexVars, trainer, sinceReset>>
    \/ (\E action \in Actions : Step(action)) /\ UNCHANGED <<indexVars, trainer, sinceReset>>

Spec == Init /\ [][Next]_vars

----------------------------------------------------------------------------
(* state_to_index applied to pairs of puzzle states of one length *)

IndexInit ==
    /\ EnvInit
    /\ \E n \in 0 .. MaxDisks : pair \in Tuples(n) \X Tuples(n)
    /\ rows = <<>>
    /\ TrainIdle
    /\ SolveIdle

ApplyIndex ==
    /\ rows = <<>>
    /\ rows' = <<state_to_index(pair[1]), state_to_index(pair[2])>>
    /\ UNCHANGED <<envVars, callVars, pair, trainer, sinceReset>>

IndexNext == ApplyIndex

IndexSpec == IndexInit /\ [][IndexNext]_vars

----------------------------------------------------------------------------
(* train_q_learning, called by main.py on a freshly created environment *)

\* env.actionSpace.n
actionSpaceN == 6

\* the arguments main.py passes, and the episode counts followed
EpisodeInputs == 0 .. MaxEpisodes
AlphaInputs == {10}
GammaInputs == {99}
EpsilonInputs == {900}
EpsilonMinInputs == {100}
EpsilonDecayInputs == {9}

\* np.max of a row of the table
maxRow(row) == CHOOSE v \in {row[k] : k \in DOMAIN row} : \A k \in DOMAIN row : row[k] <= v

\* the last index holding the maximum
argmaxLast(row) == Max({k \in DOMAIN row : row[k] = maxRow(row)})

\* np.argmax of a row of the table: the first index holding the maximum
argmax(row) == Min({k \in DOMAIN row : row[k] = maxRow(row)})

\* np.zeros(shape)
zeros(nrows, ncols) == [r \in 0 .. nrows - 1 |-> [c \in 0 .. ncols - 1 |-> 0]]

\* the update bootstrapping from the entry of the same action, not the row's best
qUpdateSameAction(q, current_index, a, r, next_index, alpha, gamma) ==
    [q EXCEPT ![current_index][a] =
        q[current_index][a]
        + (alpha * (r + (gamma * q[next_index][a]) \div 100
                    - q[current_index][a])) \div 100]

\* the update of lines 81-82
qUpdate(q, current_index, a, r, next_index, alpha, gamma) ==
    [q EXCEPT ![current_index][a] =
        q[current_index][a]
        + (alpha * (r + (gamma * maxRow(q[next_index])) \div 100
                    - q[current_index][a])) \div 100]

\* the update of line 91
qTerminalUpdate(q, next_index, a, r, alpha) ==
    [q EXCEPT ![next_index][a] =
        q[next_index][a] + (alpha * (r - q[next_index][a])) \div 100]

\* the terminal update made before the standard one
iterationTableTerminalFirst(q, current_index, a, r, next_index, alpha, gamma, isDone) ==
    IF isDone
    THEN qUpdate(qTerminalUpdate(q, next_index, a, r, alpha),
                 current_index, a, r, next_index, alpha, gamma)
    ELSE qUpdate(q, current_index, a, r, next_index, alpha, gamma)

\* lines 81-91: the table after one pass of the loop: the update of lines
\* 81-82, and after it, when done, the update of line 91
iterationTable(q, current_index, a, r, next_index, alpha, gamma, isDone) ==
    LET q1 == qUpdate(q, current_index, a, r, next_index, alpha, gamma)
    IN  IF isDone THEN qTerminalUpdate(q1, next_index, a, r, alpha) ELSE q1

\* the loop left as soon as done is anything but None
loopExitsNotNone(isdone) == isdone # "None"

\* the loop never left
loopNeverExits(isdone) == FALSE

\* line 86: if done
loopExits(isdone) == isdone = "True"

\* the running total recorded, not the steps since the last episode
episodeStepsTotal(steps, prev_step) == steps

\* line 87: steps - prev_step
episodeSteps(steps, prev_step) == steps - prev_step

\* the smaller of the floor and the product taken
decayedMin(epsilon, epsilon_min, epsilon_decay) ==
    LET product == (epsilon * epsilon_decay) \div 1000
    IN  IF epsilon_min <= product THEN epsilon_min ELSE product

\* line 95: max(epsilon_min, epsilon * epsilon_decay)
decayed(epsilon, epsilon_min, epsilon_decay) ==
    LET product == (epsilon * epsilon_decay) \div 1000
    IN  IF epsilon_min >= product THEN epsilon_min ELSE product

TrainInit == EnvInit /\ IndexIdle /\ TrainIdle /\ SolveIdle

\* main.py line 45: env = create_env(numDisks)
TrainConstruct(n) ==
    /\ trainer.pc = "idle"
    /\ Construct(n)
    /\ UNCHANGED <<indexVars, trainer, sinceReset>>

\* lines 46-54: the table and the counters; 3 ** numDisks is a float for a
\* negative numDisks, which np.zeros refuses as a shape
TrainStart(no_episodes, epsilon, epsilon_min, epsilon_decay, alpha, gamma) ==
    /\ trainer.pc = "idle"
    /\ constructed
    /\ trainer' =
          IF numDisks < 0
          THEN [pc |-> "error", error |-> "TypeError"]
          ELSE [pc |-> "for",
                no_episodes |-> no_episodes,
                epsilon |-> epsilon,
                epsilon_min |-> epsilon_min,
                epsilon_decay |-> epsilon_decay,
                alpha |-> alpha,
                gamma |-> gamma,
                q_table |-> zeros(Pow(3, numDisks), actionSpaceN),
                total_reward |-> 0,
                steps |-> 0,
                steps_list |-> <<>>,
                rewards_list |-> <<>>,
                prev_step |-> 0,
                last_reward |-> 0,
                episode |-> 0,
                state |-> <<>>,
                Exploration |-> 0,
                Exploitation |-> 0,
                action |-> 0,
                current_index |-> 0,
                next_index |-> 0,
                saved |-> <<>>,
                error |-> ""]
    /\ UNCHANGED <<envVars, callVars, indexVars, sinceReset>>

\* lines 57-62: the head of the for loop, with an episode left to run
EpisodeBegin ==
    /\ trainer.pc = "for"
    /\ trainer.episode < trainer.no_episodes
    /\ Reset
    /\ trainer' = [trainer EXCEPT !.state = ret'.state,
                                   !.Exploration = 0,
                                   !.Exploitation = 0,
                                   !.pc = "while"]
    /\ sinceReset' = [steps |-> 0, legal |-> 0, reward |-> 0]
    /\ UNCHANGED indexVars

\* lines 72-93: one pass of the while loop with action index a chosen
Iteration(a, explored) ==
    /\ Step(actionToMove[a])
    /\ LET next_state == ret'.state
           r == ret'.reward
           current_index == state_to_index(trainer.state)
           next_index == state_to_index(next_state)
           total_reward == trainer.total_reward + r
           steps == trainer.steps + 1
           isDone == loopExits(ret'.done)
       IN  trainer' =
             [trainer EXCEPT
                !.action = a,
                !.Exploration = IF explored THEN @ + 1 ELSE @,
                !.Exploitation = IF explored THEN @ ELSE @ + 1,
                !.total_reward = total_reward,
                !.steps = steps,
                !.current_index = current_index,
                !.next_index = next_index,
                !.state = next_state,
                !.steps_list =
                    IF isDone THEN Append(@, episodeSteps(steps, trainer.prev_step)) ELSE @,
                !.prev_step = IF isDone THEN steps ELSE @,
                !.rewards_list =
                    IF isDone THEN Append(@, total_reward - trainer.last_reward) ELSE @,
                !.last_reward = IF isDone THEN total_reward ELSE @,
                !.q_table = iterationTable(trainer.q_table, current_index, a, r,
                                           next_index, trainer.alpha, trainer.gamma,
                                           isDone),
                !.pc = IF isDone THEN "after_while" ELSE "while"]
    /\ sinceReset' = [steps |-> sinceReset.steps + 1,
                      legal |-> sinceReset.legal + IF legalMove' THEN 1 ELSE 0,
                      reward |-> sinceReset.reward + ret'.reward]
    /\ UNCHANGED indexVars

\* lines 66-68: np.random.rand() < epsilon, and the action space sampled
Explore(a) ==
    /\ trainer.pc = "while"
    /\ trainer.steps < MaxSteps
    /\ trainer.epsilon > 0
    /\ Iteration(a, TRUE)

\* lines 69-71: np.random.rand() >= epsilon, and the best action of the row
Exploit ==
    /\ trainer.pc = "while"
    /\ trainer.steps < MaxSteps
    /\ trainer.epsilon < 1000
    /\ Iteration(argmax(trainer.q_table[state_to_index(trainer.state)]), FALSE)

\* lines 95-96: after the while loop
EpisodeEnd ==
    /\ trainer.pc = "after_while"
    /\ trainer' = [trainer EXCEPT
                      !.epsilon = decayed(trainer.epsilon, trainer.epsilon_min,
                                          trainer.epsilon_decay),
                      !.episode = @ + 1,
                      !.pc = "for"]
    /\ UNCHANGED <<envVars, callVars, indexVars, sinceReset>>

\* lines 98-105: after the for loop; the averages of line 102 divide by
\* no_episodes and min(steps_list) needs an episode
Finish ==
    /\ trainer.pc = "for"
    /\ trainer.episode >= trainer.no_episodes
    /\ trainer' =
          IF trainer.no_episodes = 0
          THEN [trainer EXCEPT !.pc = "error", !.error = "ZeroDivisionError"]
          ELSE [trainer EXCEPT !.saved = Append(@, trainer.q_table),
                               !.pc = "done"]
    /\ UNCHANGED <<envVars, callVars, indexVars, sinceReset>>

TrainNext ==
    \/ \E n \in NumDisksInputs : TrainConstruct(n)
    \/ \E no_episodes \in EpisodeInputs, epsilon \in EpsilonInputs,
          epsilon_min \in EpsilonMinInputs, epsilon_decay \in EpsilonDecayInputs,
          alpha \in AlphaInputs, gamma \in GammaInputs :
            TrainStart(no_episodes, epsilon, epsilon_min, epsilon_decay, alpha, gamma)
    \/ EpisodeBegin
    \/ \E a \in 0 .. actionSpaceN - 1 : Explore(a)
    \/ Exploit
    \/ EpisodeEnd
    \/ Finish

TrainSpec == TrainInit /\ [][TrainNext]_vars

----------------------------------------------------------------------------
(* The environment stepped after a reset, the step calls counted *)

SolveInit == EnvInit /\ IndexIdle /\ TrainIdle /\ SolveIdle

SolveConstruct(n) ==
    /\ Construct(n)
    /\ UNCHANGED <<indexVars, trainer, sinceReset>>

SolveReset ==
    /\ Reset
    /\ sinceReset' = [steps |-> 0, legal |-> 0, reward |-> 0]
    /\ UNCHANGED <<indexVars, trainer>>

SolveStep(action) ==
    /\ done # "None"
    /\ sinceReset.steps < MaxCount
    /\ Step(action)
    /\ sinceReset' = [steps |-> sinceReset.steps + 1,
                      legal |-> sinceReset.legal + IF legalMove' THEN 1 ELSE 0,
                      reward |-> sinceReset.reward + ret'.reward]
    /\ UNCHANGED <<indexVars, trainer>>

SolveNext ==
    \/ \E n \in 1 .. MaxDisks : SolveConstruct(n)
    \/ SolveReset
    \/ \E action \in Actions : SolveStep(action)

SolveSpec == SolveInit /\ [][SolveNext]_vars

----------------------------------------------------------------------------
(* train_q_learning on one disk, under several exploration schedules *)

\* <<epsilon, epsilon_min, epsilon_decay>>: the schedule of main.py, a slower
\* decay, a start below the floor, a growth factor, no decay at full
\* exploration, and no exploration at all
ScheduleInputs ==
    {<<900, 100, 9>>, <<900, 100, 500>>, <<50, 100, 500>>, <<900, 100, 1500>>,
     <<1000, 100, 1000>>, <<0, 0, 500>>}

ScheduleNext ==
    \/ TrainConstruct(1)
    \/ \E no_episodes \in EpisodeInputs, schedule \in ScheduleInputs,
          alpha \in AlphaInputs, gamma \in GammaInputs :
            TrainStart(no_episodes, schedule[1], schedule[2], schedule[3], alpha, gamma)
    \/ EpisodeBegin
    \/ \E a \in 0 .. actionSpaceN - 1 : Explore(a)
    \/ Exploit
    \/ EpisodeEnd
    \/ Finish

ScheduleSpec == TrainInit /\ [][ScheduleNext]_vars

----------------------------------------------------------------------------
(* The control of train_q_learning under a fair choice of actions; the
   table and the counters, which do not steer the loops, are left out, and
   the calls are not remembered *)

RECURSIVE Nearer(_, _, _)
\* found, and the states of n disks that at most k legal steps bring into it
Nearer(n, k, found) ==
    IF k = 0 THEN found
    ELSE Nearer(n, k - 1,
                {st : st \in found \cup
                        {from \in Tuples(n) :
                            \E action \in Actions :
                               /\ moveAllowed(from, n, action)
                               /\ movedState(from, n, action) \in found}})

\* main.py: numDisks = 3, the most disks a run is started on here
numDisksOfMain == 3

\* the longest shortest way to the goal, that of the reset state
MaxWay == Pow(2, numDisksOfMain) - 1

\* the pairs <<k, st>> of a state st of 1 .. numDisksOfMain disks and a number k of
\* legal steps, MaxWay at most, that suffice to reach the goal from it
Ways ==
    {way : way \in UNION {{<<k, st>> : st \in Nearer(n, k, {Repeat(n, 2)})} :
                                n \in 1 .. numDisksOfMain, k \in 0 .. MaxWay}}

\* at most k legal steps reach the goal from st
Within(st, k) == <<k, st>> \in Ways

LiveConstruct(n) ==
    /\ trainer.pc = "idle"
    /\ Construct(n)
    /\ UNCHANGED <<indexVars, trainer, sinceReset>>

\* the call of train_q_learning
LiveStart(no_episodes, epsilon, epsilon_min, epsilon_decay) ==
    /\ trainer.pc = "idle"
    /\ constructed
    /\ trainer' = [pc |-> "for",
                   no_episodes |-> no_episodes,
                   epsilon |-> epsilon,
                   epsilon_min |-> epsilon_min,
                   epsilon_decay |-> epsilon_decay,
                   episode |-> 0,
                   state |-> <<>>,
                   error |-> ""]
    /\ UNCHANGED <<envVars, callVars, indexVars, sinceReset>>

\* lines 57-62
LiveEpisodeBegin ==
    /\ trainer.pc = "for"
    /\ trainer.episode < trainer.no_episodes
    /\ ResetBody
    /\ trainer' = [trainer EXCEPT !.state = ret'.state, !.pc = "while"]
    /\ UNCHANGED <<calls, pre, indexVars, sinceReset>>

\* lines 65-93: one pass of the while loop in which action index a was sampled
\* (np.random.rand() < epsilon)
LiveIteration(a) ==
    /\ trainer.pc = "while"
    /\ trainer.epsilon > 0
    /\ StepBody(actionToMove[a])
    /\ trainer' = [trainer EXCEPT
                      !.state = ret'.state,
                      !.pc = IF loopExits(ret'.done) THEN "after_while" ELSE "while"]
    /\ UNCHANGED <<calls, pre, indexVars, sinceReset>>

\* lines 95-96
LiveEpisodeEnd ==
    /\ trainer.pc = "after_while"
    /\ trainer' = [trainer EXCEPT
                      !.epsilon = decayed(trainer.epsilon, trainer.epsilon_min,
                                          trainer.epsilon_decay),
                      !.episode = @ + 1,
                      !.pc = "for"]
    /\ UNCHANGED <<envVars, callVars, indexVars, sinceReset>>

\* lines 98-105
LiveFinish ==
    /\ trainer.pc = "for"
    /\ trainer.episode >= trainer.no_episodes
    /\ trainer' = [trainer EXCEPT
                      !.pc = IF trainer.no_episodes = 0 THEN "error" ELSE "done",
                      !.error = IF trainer.no_episodes = 0
                                THEN "ZeroDivisionError" ELSE @]
    /\ UNCHANGED <<envVars, callVars, indexVars, sinceReset>>

LiveNext ==
    \/ \E n \in 1 .. numDisksOfMain : LiveConstruct(n)
    \/ \E no_episodes \in EpisodeInputs, epsilon \in EpsilonInputs,
          epsilon_min \in EpsilonMinInputs, epsilon_decay \in EpsilonDecayInputs :
            LiveStart(no_episodes, epsilon, epsilon_min, epsilon_decay)
    \/ LiveEpisodeBegin
    \/ \E a \in 0 .. actionSpaceN - 1 : LiveIteration(a)
    \/ LiveEpisodeEnd
    \/ LiveFinish

\* a pass that starts exactly way legal steps from the goal and ends nearer
Toward(way) ==
    /\ trainer.pc = "while"
    /\ ~Within(trainer.state, way - 1)
    /\ \E a \in 0 .. actionSpaceN - 1 :
          /\ LiveIteration(a)
          /\ Within(agentState', way - 1)

\* The statements outside the sampling run on; and the sampling, which gives
\* every action a positive chance in every state while epsilon > 0, does not
\* for ever withhold a step toward the goal from the states of a distance it
\* keeps coming back to.  Fairness of every action in every state implies it.
LiveFairness ==
    /\ WF_vars(LiveEpisodeBegin)
    /\ WF_vars(LiveEpisodeEnd)
    /\ WF_vars(LiveFinish)
    /\ \A way \in 1 .. MaxWay : SF_vars(Toward(way))

LiveSpec == TrainInit /\ [][LiveNext]_vars /\ LiveFairness

----------------------------------------------------------------------------
(* Properties of the environment *)

LastCall == calls[Len(calls)]
AfterStep == Len(calls) > 0 /\ LastCall.op = "step"
AfterReset == Len(calls) > 0 /\ LastCall.op = "reset"
\* the two, or three, most recent calls
LastTwo == SubSeq(calls, Len(calls) - 1, Len(calls))
LastThree == SubSeq(calls, Len(calls) - 2, Len(calls))
ResetCall == [op |-> "reset", action |-> <<>>]
StepCall(action) == [op |-> "step", action |-> action]

\* peg holds a disk of st, and d is the smallest one
TopDisk(st, peg, d) ==
    /\ d \in DOMAIN st
    /\ st[d] = peg
    /\ \A e \in DOMAIN st : st[e] = peg => d <= e

\* the rule of the game, stated on the disks themselves
LegalByRule(st, action) ==
    \E d \in DOMAIN st :
        /\ TopDisk(st, action[1], d)
        /\ \A e \in DOMAIN st : st[e] = action[2] => e > d

\* C1: in every state reached by construction, reset and step, moveAllowed
\* answers true for an action (src, dst) exactly when src holds a disk and dst
\* is empty or its smallest disk is larger than the smallest disk of src; the
\* answer step got from it is the one the rule gives on the state before the step.
C1_MoveAllowedIsTheRule ==
    /\ constructed =>
          \A action \in Actions :
              /\ moveAllowed(agentState, numDisks, action)
                    <=> LegalByRule(agentState, action)
              /\ (\A d \in DOMAIN agentState : agentState[d] # action[1])
                    => ~moveAllowed(agentState, numDisks, action)
              /\ ((\E d \in DOMAIN agentState : agentState[d] = action[1])
                   /\ (\A d \in DOMAIN agentState : agentState[d] # action[2]))
                    => moveAllowed(agentState, numDisks, action)
    /\ AfterStep => (legalMove <=> LegalByRule(pre.agentState, LastCall.action))

\* a step was refused because the destination's top disk is smaller
C1_Witness ==
    /\ AfterStep
    /\ ~legalMove
    /\ \E d \in DOMAIN pre.agentState : pre.agentState[d] = LastCall.action[1]
    /\ \E d \in DOMAIN pre.agentState : pre.agentState[d] = LastCall.action[2]

\* C2: a legal step changes the peg of exactly one disk, the smallest disk of
\* the source peg, which goes to the destination peg; an illegal step leaves
\* the state as it was.
C2_StepFrame ==
    AfterStep =>
        LET old == pre.agentState
            src == LastCall.action[1]
            dst == LastCall.action[2]
        IN  /\ DOMAIN agentState = DOMAIN old
            /\ legalMove =>
                  \E d \in DOMAIN old :
                      /\ TopDisk(old, src, d)
                      /\ agentState[d] = dst
                      /\ agentState[d] # old[d]
                      /\ \A e \in DOMAIN old \ {d} : agentState[e] = old[e]
            /\ ~legalMove => agentState = old
            /\ ret.state = agentState

\* a legal step took the top disk off a peg holding two disks or more
C2_Witness ==
    /\ AfterStep
    /\ legalMove
    /\ Cardinality({d \in DOMAIN pre.agentState :
                       pre.agentState[d] = LastCall.action[1]}) >= 2

C4_DoneIffGoal ==
    AfterStep =>
        /\ ret.done \in {"True", "False"}
        /\ ret.done = "True" <=> ret.state = goalState

FirstStep(n, action) ==
    IF n <= 0
    THEN [state |-> <<>>, reward |-> RewardGoal, done |-> "True"]
    ELSE IF action[1] # 0
    THEN [state |-> [d \in 0 .. n - 1 |-> 0], reward |-> RewardIllegal,
          done |-> "False"]
    ELSE IF n = 1 /\ action[2] = 2
    THEN [state |-> [d \in 0 .. n - 1 |-> 2], reward |-> RewardGoal,
          done |-> "True"]
    ELSE [state |-> [d \in 0 .. n - 1 |-> IF d = 0 THEN action[2] ELSE 0],
          reward |-> RewardLegal, done |-> "False"]

\* C6: whatever came before, reset leaves all disks on peg 0 and done = False
\* and returns that state, and the step that follows it returns what the first
\* step of a fresh environment returns.
C6_ResetRestoresInitial ==
    /\ AfterReset =>
          /\ agentState = [d \in 0 .. numDisks - 1 |-> 0]
          /\ done = "False"
          /\ ret.state = agentState
    /\ (Len(calls) >= 2 /\ LastTwo[1] = ResetCall /\ AfterStep) =>
          /\ ret.state = FirstStep(numDisks, LastCall.action).state
          /\ ret.reward = FirstStep(numDisks, LastCall.action).reward
          /\ ret.done = FirstStep(numDisks, LastCall.action).done

\* a step was taken right after a reset that followed the solved puzzle
C6_Witness ==
    /\ Len(calls) >= 2
    /\ LastTwo[1] = ResetCall
    /\ AfterStep
    /\ numDisks >= 2
    /\ pre.reward = RewardGoal
    /\ legalMove

\* C8 as stated: with two disks, reset then (0,1) gives state (1,0) and reward
\* -0.001, and (0,2) right after is illegal: state (1,0) kept, reward -0.1.
C8_SecondStepIllegal ==
    LET oneZero == [d \in 0 .. 1 |-> IF d = 0 THEN 1 ELSE 0]
    IN  /\ (numDisks = 2 /\ Len(calls) >= 2
             /\ LastTwo = <<ResetCall, StepCall(<<0, 1>>)>>) =>
              /\ ret.state = oneZero
              /\ ret.reward = RewardLegal
        /\ (numDisks = 2 /\ Len(calls) >= 3
             /\ LastThree = <<ResetCall, StepCall(<<0, 1>>), StepCall(<<0, 2>>)>>) =>
              /\ ~legalMove
              /\ ret.state = oneZero
              /\ ret.reward = RewardIllegal

\* C8, amended: with two disks, reset then (0,1) gives state (1,0) and reward
\* -0.001, and (0,2) right after is legal, peg 0 still holding disk 1: it moves
\* disk 1 to peg 2, giving state (1,2) and reward -0.001.
C8_TwoDiskScenario ==
    LET oneZero == [d \in 0 .. 1 |-> IF d = 0 THEN 1 ELSE 0]
        oneTwo == [d \in 0 .. 1 |-> IF d = 0 THEN 1 ELSE 2]
    IN  /\ (numDisks = 2 /\ Len(calls) >= 2
             /\ LastTwo = <<ResetCall, StepCall(<<0, 1>>)>>) =>
              /\ legalMove
              /\ ret.state = oneZero
              /\ agentState = oneZero
              /\ ret.reward = RewardLegal
        /\ (numDisks = 2 /\ Len(calls) >= 3
             /\ LastThree = <<ResetCall, StepCall(<<0, 1>>), StepCall(<<0, 2>>)>>) =>
              /\ legalMove
              /\ pre.agentState = oneZero
              /\ ret.state = oneTwo
              /\ agentState = oneTwo
              /\ ret.reward = RewardLegal
              /\ ret.done = "False"

\* the three calls of the scenario were made
C8_Witness ==
    /\ numDisks = 2
    /\ Len(calls) >= 3
    /\ LastThree = <<ResetCall, StepCall(<<0, 1>>), StepCall(<<0, 2>>)>>

\* C10: no environment exists with numDisks <= 0.
C10_NoEnvWithoutDisks == constructed => numDisks >= 1

----------------------------------------------------------------------------
(* Properties of state_to_index *)

\* C7: state_to_index maps the tuples of n pegs one-to-one onto 0 .. 3^n - 1,
\* disk 0 being the most significant base-3 digit: digit n-1-i of the index is
\* the peg of disk i, the initial state maps to 0 and the goal state to 3^n - 1.
C7_IndexBijection ==
    rows # <<>> =>
        LET n == Cardinality(DOMAIN pair[1])
        IN  /\ \A k \in 1 .. 2 :
                  /\ rows[k] \in 0 .. Pow(3, n) - 1
                  /\ \A i \in 0 .. n - 1 :
                        (rows[k] \div Pow(3, n - 1 - i)) % 3 = pair[k][i]
                  /\ pair[k] = [d \in 0 .. n - 1 |-> 0] => rows[k] = 0
                  /\ pair[k] = [d \in 0 .. n - 1 |-> 2] => rows[k] = Pow(3, n) - 1
            /\ rows[1] = rows[2] => pair[1] = pair[2]
            /\ {state_to_index(t) : t \in Tuples(n)} = 0 .. Pow(3, n) - 1

\* two distinct states, one the mirror image of the other, were indexed
C7_Witness ==
    /\ rows # <<>>
    /\ Cardinality(DOMAIN pair[1]) >= 2
    /\ pair[1] # pair[2]
    /\ \A i \in DOMAIN pair[1] :
          pair[1][i] = pair[2][Cardinality(DOMAIN pair[1]) - 1 - i]

----------------------------------------------------------------------------
(* Properties of the trainer *)

\* the trainer has just passed an action to step
TrainerStepped ==
    /\ trainer.pc \in {"while", "after_while"}
    /\ AfterStep

\* C9: the action index the trainer chose lies in 0 .. 5 and the pair it
\* passed to step is the one the order 0:(0,1), 1:(0,2), 2:(1,0), 3:(1,2),
\* 4:(2,0), 5:(2,1) gives, which is the pair actionLookup documents for that
\* index: one of the six pairs of distinct pegs.
C9_ActionOrder ==
    TrainerStepped =>
        LET k == trainer.action
            passed == LastCall.action
        IN  /\ k \in 0 .. 5
            /\ k = 0 => passed = <<0, 1>>
            /\ k = 1 => passed = <<0, 2>>
            /\ k = 2 => passed = <<1, 0>>
            /\ k = 3 => passed = <<1, 2>>
            /\ k = 4 => passed = <<2, 0>>
            /\ k = 5 => passed = <<2, 1>>
            /\ passed = actionLookup[k]
            /\ passed \in Pegs \X Pegs
            /\ passed[1] # passed[2]

\* the trainer passed the last action of the list to step, in an episode in
\* which it both explored and exploited
C9_Witness ==
    /\ TrainerStepped
    /\ trainer.Exploitation > 0
    /\ trainer.Exploration > 0
    /\ trainer.action = 5
    /\ LastCall.action = <<2, 1>>

\* a pass of the while loop is being taken
LoopPass == trainer.pc = "while" /\ trainer'.pc \in {"while", "after_while"}

\* v is the largest value of row
IsMaxOf(row, v) ==
    /\ \E k \in DOMAIN row : row[k] = v
    /\ \A k \in DOMAIN row : row[k] <= v

\* the result of Q[s,a] + alpha * (r + gamma * best - Q[s,a]) in the table's units
Learned(old, r, best, alpha, gamma) ==
    old + (alpha * (r + (gamma * best) \div 100 - old)) \div 100

\* C11: a pass of the loop on which step did not return done changes the
\* table at most in Q[s,a], s the index of the state before the step and a the
\* chosen action, which becomes Q[s,a] + alpha*(reward + gamma*max Q[s',.] -
\* Q[s,a]) with s' the index of the returned state (s' = s after an illegal
\* move); no other step of the run between its start and its end changes the
\* table, so it is never zeroed again.
C11_StandardUpdateOnly ==
    [][/\ (LoopPass /\ ret'.done # "True") =>
            LET q == trainer.q_table
                s == state_to_index(pre'.agentState)
                a == trainer'.action
                s2 == state_to_index(ret'.state)
            IN  /\ trainer.state = pre'.agentState
                /\ ~legalMove' => s2 = s
                /\ \E best \in {q[s2][k] : k \in 0 .. 5} :
                      /\ IsMaxOf(q[s2], best)
                      /\ trainer'.q_table[s][a] =
                            Learned(q[s][a], ret'.reward, best,
                                    trainer.alpha, trainer.gamma)
                /\ trainer'.q_table = [q EXCEPT ![s][a] = trainer'.q_table[s][a]]
       /\ trainer.pc \in {"for", "after_while"} =>
            trainer'.q_table = trainer.q_table
      ]_vars

\* a pass that was not the last of its episode left a positive entry, which
\* only the discounted best value of the next row can give
C11_Witness ==
    /\ trainer.pc = "while"
    /\ AfterStep
    /\ trainer.episode >= 1
    /\ trainer.q_table[trainer.current_index][trainer.action] > 0

\* C12: on the pass where step returns done = True the table gets the update
\* of Q[s,a] first, computed on the table as it was before the pass, and then
\* Q[s',a] <- Q[s',a] + alpha*(reward - Q[s',a]) on the row s' of the returned
\* state, the goal's, with the same action and no discounted term; the loop is
\* then left.  On a pass where done is not True the loop goes on and Q[s',a]
\* is not given that second update.
C12_TerminalDoubleUpdate ==
    [][LoopPass =>
         LET q == trainer.q_table
             q2 == trainer'.q_table
             s == state_to_index(pre'.agentState)
             a == trainer'.action
             s2 == state_to_index(ret'.state)
             r == ret'.reward
             alpha == trainer.alpha
         IN  \E best \in {q[s2][k] : k \in 0 .. 5} :
               /\ IsMaxOf(q[s2], best)
               /\ LET first == Learned(q[s][a], r, best, alpha, trainer.gamma)
                  IN  IF ret'.done = "True"
                      THEN /\ trainer'.pc = "after_while"
                           /\ ret'.state = goalState
                           /\ s2 = Pow(3, numDisks) - 1
                           /\ s2 # s =>
                                 /\ q2[s][a] = first
                                 /\ q2[s2][a] = q[s2][a] + (alpha * (r - q[s2][a])) \div 100
                           /\ s2 = s =>
                                 q2[s][a] = first + (alpha * (r - first)) \div 100
                           /\ q2 = [q EXCEPT ![s][a] = q2[s][a], ![s2][a] = q2[s2][a]]
                      ELSE /\ trainer'.pc = "while"
                           /\ q2[s][a] = first
                           /\ s2 # s => q2[s2][a] = q[s2][a]
      ]_vars

\* an episode after the first ended on the action an earlier one ended on, so
\* that the goal's row was given its update a second time
C12_Witness ==
    /\ trainer.pc = "after_while"
    /\ numDisks >= 1
    /\ trainer.episode >= 1
    /\ trainer.next_index = Pow(3, numDisks) - 1
    /\ trainer.q_table[trainer.next_index][trainer.action] > 100000

\* train_q_learning is running its episodes
InEpisodes == trainer.pc \in {"for", "while", "after_while"}

\* C13: the while loop is left exactly by a pass on which step returned done =
\* True, the environment then being at the goal; any other pass stays in the
\* loop, in the same episode, with nothing recorded and nothing saved.  The
\* episode counter moves only after the loop was left and the table is saved
\* only from the head of the for loop with no episode left.
C13_LoopLeftOnlyOnDone ==
    [][/\ trainer.pc = "while" =>
            \/ /\ ret'.done = "True"
               /\ agentState' = goalState
               /\ trainer'.pc = "after_while"
            \/ /\ ret'.done # "True"
               /\ agentState' # goalState
               /\ trainer'.pc = "while"
               /\ trainer'.episode = trainer.episode
               /\ trainer'.steps_list = trainer.steps_list
               /\ trainer'.saved = trainer.saved
       /\ (InEpisodes /\ trainer'.pc # "error") =>
            /\ trainer'.episode # trainer.episode => trainer.pc = "after_while"
            /\ trainer'.saved # trainer.saved =>
                  (trainer.pc = "for" /\ trainer.episode >= trainer.no_episodes)
      ]_vars

\* an episode on one disk, which one step can end, is still running after
\* three steps
C13_Witness ==
    /\ trainer.pc = "while"
    /\ numDisks = 1
    /\ trainer.steps - trainer.prev_step >= 3
    /\ trainer.steps_list = <<>>
    /\ trainer.saved = <<>>

\* C14: epsilon is one value carried through the episodes: it is the value
\* passed in until the first episode ends, it does not change during an
\* episode, and at the end of each episode it becomes the larger of
\* epsilon_min and epsilon * epsilon_decay; so it is at least epsilon_min once
\* an episode has ended, and with 0 <= epsilon_decay <= 1 and epsilon at least
\* epsilon_min it never grows.
C14_EpsilonSchedule ==
    /\ [][(InEpisodes /\ trainer'.pc # "error") =>
            /\ trainer.pc # "after_while" => trainer'.epsilon = trainer.epsilon
            /\ trainer.pc = "after_while" =>
                  LET product == (trainer.epsilon * trainer.epsilon_decay) \div 1000
                  IN  /\ trainer'.epsilon \in {trainer.epsilon_min, product}
                      /\ trainer'.epsilon >= trainer.epsilon_min
                      /\ trainer'.epsilon >= product
                      /\ (/\ trainer.epsilon_decay \in 0 .. 1000
                          /\ trainer.epsilon >= trainer.epsilon_min)
                            => trainer'.epsilon <= trainer.epsilon
            /\ trainer'.epsilon_min = trainer.epsilon_min
            /\ trainer'.epsilon_decay = trainer.epsilon_decay
         ]_vars
    /\ [](InEpisodes =>
            /\ trainer.episode = 0 =>
                  <<trainer.epsilon, trainer.epsilon_min, trainer.epsilon_decay>>
                     \in ScheduleInputs
            /\ trainer.episode >= 1 => trainer.epsilon >= trainer.epsilon_min)

\* epsilon was halved at the end of two episodes without meeting the floor
C14_Witness ==
    /\ InEpisodes
    /\ trainer.episode = 2
    /\ trainer.epsilon_min = 100
    /\ trainer.epsilon = 225

\* C15: on a pass that exploits, the action index chosen is the lowest of
\* those holding the largest value of the row of the state held before the
\* step; on a row of zeros it is index 0, the move (0,1).
C15_ExploitFirstMaximum ==
    [][(LoopPass /\ trainer'.Exploitation = trainer.Exploitation + 1) =>
         LET row == trainer.q_table[state_to_index(pre'.agentState)]
             k == trainer'.action
         IN  /\ trainer.state = pre'.agentState
             /\ trainer'.Exploration = trainer.Exploration
             /\ k \in 0 .. 5
             /\ \A j \in 0 .. 5 : row[j] <= row[k]
             /\ \A j \in 0 .. k - 1 : row[j] < row[k]
             /\ (\A j \in 0 .. 5 : row[j] = 0) =>
                   (k = 0 /\ calls'[Len(calls')].action = <<0, 1>>)
      ]_vars

\* an episode of exploitation alone came to choose an action other than the
\* first, the entries before it having been lowered
C15_Witness ==
    /\ TrainerStepped
    /\ trainer.Exploration = 0
    /\ trainer.Exploitation >= 2
    /\ trainer.action >= 1

\* the run got past its for loop and has come to its end, normally or not
LoopCompletedAndEnded ==
    \/ trainer.pc = "done"
    \/ trainer.pc = "error" /\ trainer.error = "ZeroDivisionError"

\* C17: a run that completed its episode loop, whatever the episode count
\* (zero included), has written the Q-table exactly once, and what it wrote is
\* the table as the last update left it.
C17_TableSavedOnce ==
    LoopCompletedAndEnded =>
        /\ Len(trainer.saved) = 1
        /\ trainer.saved[1] = trainer.q_table

RECURSIVE Sum(_)
Sum(list) == IF list = <<>> THEN 0 ELSE Head(list) + Sum(Tail(list))

\* the trainer's counters exist: the table was allocated and no error was raised
Counting == trainer.pc \in {"for", "while", "after_while", "done"}

\* the episodes whose while loop was left
Finished == trainer.episode + IF trainer.pc = "after_while" THEN 1 ELSE 0

\* C18: one step count and one reward delta are recorded per finished
\* episode, each the number of step calls and the sum of the step rewards of
\* that episode alone; the recorded counts sum to the total step counter, the
\* recorded deltas to the total reward, and the exploration and exploitation
\* counters of an episode sum to its step count.  No recorded count is below
\* 2^numDisks - 1.
C18_PerEpisodeRecords ==
    Counting =>
        /\ Len(trainer.steps_list) = Finished
        /\ Len(trainer.rewards_list) = Finished
        /\ Sum(trainer.steps_list) = trainer.prev_step
        /\ Sum(trainer.rewards_list) = trainer.last_reward
        /\ trainer.pc # "while" =>
              /\ trainer.prev_step = trainer.steps
              /\ trainer.last_reward = trainer.total_reward
        /\ trainer.pc = "while" =>
              /\ trainer.steps - trainer.prev_step = sinceReset.steps
              /\ trainer.total_reward - trainer.last_reward = sinceReset.reward
              /\ trainer.Exploration + trainer.Exploitation = sinceReset.steps
        /\ trainer.pc = "after_while" =>
              /\ trainer.steps_list[Finished] = sinceReset.steps
              /\ trainer.rewards_list[Finished] = sinceReset.reward
              /\ trainer.Exploration + trainer.Exploitation = sinceReset.steps
        /\ \A i \in 1 .. Len(trainer.steps_list) :
              /\ trainer.steps_list[i] >= 1
              /\ trainer.steps_list[i] >= Pow(2, numDisks) - 1

\* a second episode has finished with a step count other than the first's,
\* having both explored and exploited
C18_Witness ==
    /\ trainer.pc = "after_while"
    /\ Len(trainer.steps_list) = 2
    /\ trainer.steps_list[1] # trainer.steps_list[2]
    /\ trainer.rewards_list[1] # trainer.rewards_list[2]
    /\ trainer.Exploration > 0
    /\ trainer.Exploitation > 0

\* the rows of the table of an environment of numDisks disks, and the row of
\* the goal state
RowIndices == 0 .. Pow(3, numDisks) - 1
GoalIndex == state_to_index(goalState)

\* C20: with at least one disk, the state the trainer holds at the start of a
\* pass of the while loop is never the goal state, so the goal state's row is
\* written by the terminal update only, never by the standard one; and every
\* row and action index used on the table lies in 0 .. 3^numDisks - 1 and
\* 0 .. 5.
C20_GoalRowAndIndexRange ==
    /\ []((numDisks >= 1 /\ trainer.pc = "while") =>
            /\ trainer.state # goalState
            /\ trainer.state = agentState
            /\ state_to_index(trainer.state) \in RowIndices \ {GoalIndex}
            /\ DOMAIN trainer.q_table = RowIndices
            /\ \A row \in RowIndices :
                  DOMAIN trainer.q_table[row] = 0 .. actionSpaceN - 1)
    /\ [][(numDisks >= 1 /\ LoopPass) =>
            /\ trainer'.current_index \in RowIndices \ {GoalIndex}
            /\ trainer'.next_index \in RowIndices
            /\ trainer'.action \in 0 .. actionSpaceN - 1
            /\ trainer'.q_table[GoalIndex] =
                  IF trainer'.pc = "after_while"
                  THEN qTerminalUpdate(trainer.q_table, GoalIndex, trainer'.action,
                                       ret'.reward, trainer.alpha)[GoalIndex]
                  ELSE trainer.q_table[GoalIndex]
            /\ trainer'.pc = "after_while" => trainer'.next_index = GoalIndex]_vars

\* the goal state's row of a two-disk table has been written by the terminal
\* update
C20_Witness ==
    /\ numDisks = 2
    /\ trainer.pc = "after_while"
    /\ trainer.next_index = GoalIndex
    /\ trainer.q_table[GoalIndex][trainer.action] > 0

----------------------------------------------------------------------------
(* Properties of the puzzle *)

\* C16: the goal state is never reached by fewer than 2^numDisks - 1 step
\* calls after a reset, 7 for three disks, nor by fewer legal ones.
C16_NoShorterSolution ==
    (done # "None" /\ agentState = goalState) =>
        /\ sinceReset.steps >= Pow(2, numDisks) - 1
        /\ sinceReset.legal >= Pow(2, numDisks) - 1

\* three disks were brought to the goal by exactly 7 steps, all legal
C16_Witness ==
    /\ numDisks = 3
    /\ agentState = goalState
    /\ done = "True"
    /\ sinceReset.steps = 7
    /\ sinceReset.legal = 7

----------------------------------------------------------------------------
(* Properties of the training run under fair sampling *)

\* C19: with at least one disk, the goal is reachable by legal steps from
\* every state an episode is in; and under fair sampling every episode ends
\* with done = True and the run gets through all its episodes.
C19_EpisodesEnd ==
    /\ [](trainer.pc = "while" =>
            /\ trainer.state = agentState
            /\ Within(agentState, Pow(2, numDisks) - 1))
    /\ (trainer.pc = "while") ~> (trainer.pc = "after_while" /\ done = "True")
    /\ (trainer.pc = "for") ~>
          (trainer.pc \in {"done", "error"} /\ trainer.episode = trainer.no_episodes)

\* a run of two episodes on three disks got through both
C19_Witness ==
    /\ numDisks = 3
    /\ trainer.pc = "done"
    /\ trainer.episode = 2
    /\ agentState = goalState

====
